---- MODULE Spec2Model ----
(***************************************************************************)
(* Model of convert_png_to_webp.py: the command-line PNG to WebP converter *)
(* of PokedexImages.  One invocation of main() validates the quality       *)
(* argument, checks the source directory, globs "*.png", and then handles  *)
(* the files one at a time: skip when the .webp exists, otherwise open,    *)
(* decide the mode and the save arguments, save, count.  The file system   *)
(* persists between invocations; everything else is local to one.          *)
(*                                                                         *)
(* A file name is the sequence of its dot-separated components             *)
(* ("a.b.png" is <<"a", "b", "png">>).  The directory is a function from   *)
(* the names that exist to their contents.  The modelled directories hold  *)
(* names with a non-empty first component.                                 *)
(***************************************************************************)
EXTENDS Integers, Sequences, FiniteSets, TLC

VARIABLES
    kind,             \* what source_dir names: "dir", "file" or "missing"
    fs,               \* the directory: existing name -> content
    args,             \* the parsed command line: [quality, lossless]
    pc,               \* position of the invocation
    png_files,        \* list(source_path.glob("*.png"))
    i,                \* position of the for loop in png_files (1-based)
    converted_count,
    skipped_count,
    error_count,
    stdout,           \* the lines printed by this invocation
    opened,           \* the Image.open calls of this invocation, in order
    saves,            \* the img.save calls of this invocation, in order
    checks,           \* the webp_file.exists() calls of this invocation, in order
    fs0,              \* the directory when this invocation started
    run,              \* number of the invocation
    prev              \* how the previous invocation ended

vars == <<kind, fs, args, pc, png_files, i, converted_count, skipped_count,
          error_count, stdout, opened, saves, checks, fs0, run, prev>>

locals == <<png_files, i, converted_count, skipped_count, error_count>>
counters == <<converted_count, skipped_count, error_count>>

(***************************************************************************)
(* Bounds and program constants                                            *)
(***************************************************************************)
MaxRuns == 2          \* invocations of the script on the same directory

Opaque == 255         \* the alpha value compared against at line 64
DefaultQuality == 85
MinQuality == 0
MaxQuality == 100

PngNames == {<<"a", "png">>, <<"b", "png">>, <<"a", "b", "png">>}
WebpNames == {<<"a", "webp">>}

QualityArgs == {MinQuality, DefaultQuality, MaxQuality + 1}

\* (min, max) of the alpha band of an image that has one
AlphaExtrema == {<<0, Opaque>>, <<Opaque, Opaque>>}
NoAlpha == <<>>

\* What a .png file can hold: a file Image.open rejects, or an image
Corrupt == [fmt |-> "corrupt", mode |-> "", alpha |-> NoAlpha]
PngContents ==
    {Corrupt}
    \cup {[fmt |-> "PNG", mode |-> "RGB", alpha |-> NoAlpha]}
    \cup {[fmt |-> "PNG", mode |-> "RGBA", alpha |-> x] : x \in AlphaExtrema}
    \cup {[fmt |-> "PNG", mode |-> "LA", alpha |-> x] : x \in AlphaExtrema}

\* A .webp file the script did not write, of whatever content
OldWebp == [fmt |-> "other", mode |-> "", alpha |-> NoAlpha]

(***************************************************************************)
(* pathlib and PIL, as far as the script uses them                         *)
(***************************************************************************)
\* PurePath.with_suffix: the last suffix is replaced; a name that has none
\* (one component, or only a leading dot) gets the suffix appended
with_suffix_appended(path, suffix) == path \o <<suffix>>
with_suffix(path, suffix) ==
    IF Len(path) >= 2 /\ ~(Len(path) = 2 /\ path[1] = "")
    THEN SubSeq(path, 1, Len(path) - 1) \o <<suffix>>
    ELSE path \o <<suffix>>

\* webp_file.exists()
exists_other_case(path) == with_suffix(path, "WEBP") \in DOMAIN fs
exists(path) == path \in DOMAIN fs

\* source_path.exists() and source_path.is_dir()
source_exists(k) == k # "missing"
is_dir_unchecked(k) == TRUE
is_dir(k) == k = "dir"

\* source_path.glob("*.png"): the children whose name ends in ".png"
glob_png(dir) == {n \in DOMAIN dir : Len(n) >= 2 /\ n[Len(n)] = "png"}

\* list(...) of the glob: the directory listing order is any order
Orders(S) ==
    {s \in [1..Cardinality(S) -> S] :
        \A j, k \in 1..Cardinality(S) : j # k => s[j] # s[k]}

\* `if not png_files`
no_files_unchecked(files) == FALSE
no_files(files) == files = {}

\* Image.open raises on a file that is no image
can_open(content) == content.fmt = "PNG"
Image_open(content) == [mode |-> content.mode, alpha |-> content.alpha]

\* img.getextrema() of an RGBA image: one (min, max) per band, alpha last
getextrema(img) == <<<<0, Opaque>>, <<0, Opaque>>, <<0, Opaque>>, img.alpha>>

\* img.getextrema()[3][0] < 255
has_transparency_inclusive(img) == getextrema(img)[4][1] <= Opaque
has_transparency(img) == getextrema(img)[4][1] < Opaque

\* img.convert('RGB')
convert(img, mode) == [mode |-> mode, alpha |-> NoAlpha]

\* the image that reaches img.save
image_to_save(img) ==
    IF img.mode = "RGBA"
    THEN IF has_transparency(img) THEN img ELSE convert(img, "RGB")
    ELSE img

\* save_kwargs, as built in the three branches
save_kwargs_quality_always(img, quality, lossless) ==
    IF img.mode = "RGBA" /\ has_transparency(img)
    THEN [format |-> "WEBP", lossless |-> lossless, quality |-> quality]
    ELSE [format |-> "WEBP", quality |-> quality]
save_kwargs(img, quality, lossless) ==
    IF img.mode = "RGBA"
    THEN IF has_transparency(img)
         THEN IF ~lossless
              THEN [format |-> "WEBP", lossless |-> lossless, quality |-> quality]
              ELSE [format |-> "WEBP", lossless |-> lossless]
         ELSE [format |-> "WEBP", quality |-> quality]
    ELSE [format |-> "WEBP", quality |-> quality]

\* what img.save leaves at the path
Encoded(img, kw) == [fmt |-> "WEBP", mode |-> img.mode, alpha |-> img.alpha, kw |-> kw]

Line(t, f, n) == [t |-> t, f |-> f, n |-> n]
NoFile == <<>>

(***************************************************************************)
(* Initial states: any directory over the names, any command line          *)
(***************************************************************************)
EmptyDir == [n \in {} |-> OldWebp]

Directories ==
    UNION {UNION {{f @@ g : f \in [P -> PngContents], g \in [W -> {OldWebp}]} :
                     W \in SUBSET WebpNames} : P \in SUBSET PngNames}

NoRun == [pc |-> "none", converted |-> 0, skipped |-> 0, errors |-> 0]

Init ==
    /\ kind \in {"dir", "file", "missing"}
    /\ fs \in (IF kind = "dir" THEN Directories ELSE {EmptyDir})
    /\ args \in [quality : QualityArgs, lossless : BOOLEAN]
    /\ pc = "main"
    /\ png_files = <<>>
    /\ i = 1
    /\ converted_count = 0
    /\ skipped_count = 0
    /\ error_count = 0
    /\ stdout = <<>>
    /\ opened = <<>>
    /\ saves = <<>>
    /\ checks = <<>>
    /\ fs0 = fs
    /\ run = 1
    /\ prev = NoRun

(***************************************************************************)
(* main()                                                                  *)
(***************************************************************************)
quality_valid(q) == MinQuality <= q /\ q <= MaxQuality

MainBadQuality ==
    /\ pc = "main"
    /\ ~quality_valid(args.quality)
    /\ stdout' = Append(stdout, Line("Error: Quality must be between 0 and 100", NoFile, <<>>))
    /\ pc' = "bad_quality"
    /\ UNCHANGED <<kind, fs, args, locals, opened, saves, checks, fs0, run, prev>>

MainCall ==
    /\ pc = "main"
    /\ quality_valid(args.quality)
    /\ stdout' = Append(stdout, Line("PNG to WebP Converter", NoFile, <<>>))
    /\ pc' = "convert"
    /\ UNCHANGED <<kind, fs, args, locals, opened, saves, checks, fs0, run, prev>>

(***************************************************************************)
(* convert_png_to_webp(source_dir, quality, lossless): up to the loop      *)
(***************************************************************************)
NoDirectory ==
    /\ pc = "convert"
    /\ ~source_exists(kind)
    /\ stdout' = Append(stdout, Line("Error: does not exist", NoFile, <<>>))
    /\ pc' = "no_dir"
    /\ UNCHANGED <<kind, fs, args, locals, opened, saves, checks, fs0, run, prev>>

NotADirectory ==
    /\ pc = "convert"
    /\ source_exists(kind)
    /\ ~is_dir(kind)
    /\ stdout' = Append(stdout, Line("Error: is not a directory", NoFile, <<>>))
    /\ pc' = "not_dir"
    /\ UNCHANGED <<kind, fs, args, locals, opened, saves, checks, fs0, run, prev>>

NoPngFiles ==
    /\ pc = "convert"
    /\ source_exists(kind)
    /\ is_dir(kind)
    /\ no_files(glob_png(fs))
    /\ stdout' = Append(stdout, Line("No PNG files found", NoFile, <<>>))
    /\ pc' = "no_png"
    /\ UNCHANGED <<kind, fs, args, locals, opened, saves, checks, fs0, run, prev>>

FoundPngFiles ==
    /\ pc = "convert"
    /\ source_exists(kind)
    /\ is_dir(kind)
    /\ ~no_files(glob_png(fs))
    /\ png_files' \in Orders(glob_png(fs))
    /\ stdout' = Append(stdout, Line("Found", NoFile, <<Len(png_files')>>))
    /\ converted_count' = 0
    /\ skipped_count' = 0
    /\ error_count' = 0
    /\ i' = 1
    /\ pc' = "loop"
    /\ UNCHANGED <<kind, fs, args, opened, saves, checks, fs0, run, prev>>

(***************************************************************************)
(* The for loop: one action is one iteration                               *)
(***************************************************************************)
Check(png_file, webp_file) ==
    [file |-> png_file, path |-> webp_file, existed |-> webp_file \in DOMAIN fs,
     was |-> IF webp_file \in DOMAIN fs THEN <<fs[webp_file]>> ELSE <<>>]

Save(png_file, webp_file, src, img, kw, ok) ==
    [file |-> png_file, path |-> webp_file, src |-> src, img |-> img, kw |-> kw, ok |-> ok]

\* skipped_count += 1
count_skipped_lost == UNCHANGED counters
count_skipped ==
    /\ skipped_count' = skipped_count + 1
    /\ UNCHANGED <<converted_count, error_count>>

\* converted_count += 1
count_converted ==
    /\ converted_count' = converted_count + 1
    /\ UNCHANGED <<skipped_count, error_count>>

\* error_count += 1
count_error ==
    /\ error_count' = error_count + 1
    /\ UNCHANGED <<converted_count, skipped_count>>

\* the loop goes on with the next file
next_file ==
    /\ i' = i + 1
    /\ pc' = "loop"

\* `except Exception`: the exception is caught, the loop goes on
except_propagates ==
    /\ i' = i
    /\ pc' = "raised"
except_Exception ==
    /\ i' = i + 1
    /\ pc' = "loop"

\* webp_file.exists(): print, count, continue
SkipFile_no_continue ==
    /\ pc = "loop"
    /\ i <= Len(png_files)
    /\ LET png_file == png_files[i]
           webp_file == with_suffix(png_file, "webp")
           img == Image_open(fs[png_file])
           kw == save_kwargs(img, args.quality, args.lossless)
       IN  /\ exists(webp_file)
           /\ can_open(fs[png_file])
           /\ checks' = Append(checks, Check(png_file, webp_file))
           /\ opened' = Append(opened, png_file)
           /\ saves' = Append(saves, Save(png_file, webp_file, img, image_to_save(img), kw, TRUE))
           /\ fs' = (webp_file :> Encoded(image_to_save(img), kw)) @@ fs
           /\ stdout' = stdout \o <<Line("Skipping", png_file, <<>>),
                                    Line("Converted", png_file, <<>>)>>
           /\ skipped_count' = skipped_count + 1
           /\ converted_count' = converted_count + 1
           /\ UNCHANGED error_count
    /\ next_file
    /\ UNCHANGED <<kind, args, png_files, fs0, run, prev>>
SkipFile ==
    /\ pc = "loop"
    /\ i <= Len(png_files)
    /\ LET png_file == png_files[i]
           webp_file == with_suffix(png_file, "webp")
       IN  /\ exists(webp_file)
           /\ checks' = Append(checks, Check(png_file, webp_file))
           /\ stdout' = Append(stdout, Line("Skipping", png_file, <<>>))
    /\ count_skipped
    /\ next_file
    /\ UNCHANGED <<kind, fs, args, png_files, opened, saves, fs0, run, prev>>

\* Image.open raises
DecodeFails ==
    /\ pc = "loop"
    /\ i <= Len(png_files)
    /\ LET png_file == png_files[i]
           webp_file == with_suffix(png_file, "webp")
       IN  /\ ~exists(webp_file)
           /\ ~can_open(fs[png_file])
           /\ checks' = Append(checks, Check(png_file, webp_file))
           /\ opened' = Append(opened, png_file)
           /\ stdout' = Append(stdout, Line("Error converting", png_file, <<>>))
    /\ count_error
    /\ except_Exception
    /\ UNCHANGED <<kind, fs, args, png_files, saves, fs0, run, prev>>

\* the image opens, the mode and the save arguments are decided, img.save
\* writes the file
Converts ==
    /\ pc = "loop"
    /\ i <= Len(png_files)
    /\ LET png_file == png_files[i]
           webp_file == with_suffix(png_file, "webp")
           img == Image_open(fs[png_file])
           kw == save_kwargs(img, args.quality, args.lossless)
       IN  /\ ~exists(webp_file)
           /\ can_open(fs[png_file])
           /\ checks' = Append(checks, Check(png_file, webp_file))
           /\ opened' = Append(opened, png_file)
           /\ saves' = Append(saves, Save(png_file, webp_file, img, image_to_save(img), kw, TRUE))
           /\ fs' = (webp_file :> Encoded(image_to_save(img), kw)) @@ fs
           /\ stdout' = Append(stdout, Line("Converted", png_file, <<>>))
    /\ count_converted
    /\ next_file
    /\ UNCHANGED <<kind, args, png_files, fs0, run, prev>>

\* the image opens, img.save raises and leaves no file
SaveFails ==
    /\ pc = "loop"
    /\ i <= Len(png_files)
    /\ LET png_file == png_files[i]
           webp_file == with_suffix(png_file, "webp")
           img == Image_open(fs[png_file])
           kw == save_kwargs(img, args.quality, args.lossless)
       IN  /\ ~exists(webp_file)
           /\ can_open(fs[png_file])
           /\ checks' = Append(checks, Check(png_file, webp_file))
           /\ opened' = Append(opened, png_file)
           /\ saves' = Append(saves, Save(png_file, webp_file, img, image_to_save(img), kw, FALSE))
           /\ stdout' = Append(stdout, Line("Error converting", png_file, <<>>))
    /\ count_error
    /\ except_Exception
    /\ UNCHANGED <<kind, fs, args, png_files, fs0, run, prev>>

\* after the loop: the summary
Summary ==
    /\ pc = "loop"
    /\ i > Len(png_files)
    /\ stdout' = Append(stdout, Line("CONVERSION SUMMARY", NoFile,
                     <<Len(png_files), converted_count, skipped_count, error_count>>))
    /\ pc' = "done"
    /\ UNCHANGED <<kind, fs, args, locals, opened, saves, checks, fs0, run, prev>>

(***************************************************************************)
(* The script is run again on the same directory with the same options     *)
(***************************************************************************)
Returned == {"bad_quality", "no_dir", "not_dir", "no_png", "done"}

RunAgain ==
    /\ pc \in Returned
    /\ run < MaxRuns
    /\ run' = run + 1
    /\ prev' = [pc |-> pc, converted |-> converted_count,
                skipped |-> skipped_count, errors |-> error_count]
    /\ fs0' = fs
    /\ pc' = "main"
    /\ png_files' = <<>>
    /\ i' = 1
    /\ converted_count' = 0
    /\ skipped_count' = 0
    /\ error_count' = 0
    /\ stdout' = <<>>
    /\ opened' = <<>>
    /\ saves' = <<>>
    /\ checks' = <<>>
    /\ UNCHANGED <<kind, fs, args>>

Next ==
    \/ MainBadQuality
    \/ MainCall
    \/ NoDirectory
    \/ NotADirectory
    \/ NoPngFiles
    \/ FoundPngFiles
    \/ SkipFile
    \/ DecodeFails
    \/ Converts
    \/ SaveFails
    \/ Summary
    \/ RunAgain

Spec == Init /\ [][Next]_vars

(***************************************************************************)
(* Vocabulary of the properties                                            *)
(***************************************************************************)
LinesOf(t) == {k \in DOMAIN stdout : stdout[k].t = t}
LinesAbout(f) == {k \in DOMAIN stdout : stdout[k].f = f}
Outcomes == {"Converted", "Skipping", "Error converting"}
OutcomeLines == {k \in DOMAIN stdout : stdout[k].t \in Outcomes}
OpensOf(f) == {k \in DOMAIN opened : opened[k] = f}
SavesOf(f) == {k \in DOMAIN saves : saves[k].file = f}
NewFiles == DOMAIN fs \ DOMAIN fs0
SummaryLine(n) == Line("CONVERSION SUMMARY", NoFile, n)

\* the naming contract: same base name, extension webp
OutputName(p) == SubSeq(p, 1, Len(p) - 1) \o <<"webp">>

\* colour models with an alpha channel
HasAlphaChannel(mode) == mode \in {"RGBA", "LA"}
MinAlpha(img) == img.alpha[1]

(***************************************************************************)
(* C1  Count conservation: while the loop runs the three counters add up   *)
(* to the number of files handled, each counter equals the number of       *)
(* outcomes of its kind reported, every handled file has exactly one       *)
(* outcome and no other file has one; the summary reports                  *)
(* total_found = converted + skipped + errors with total_found the number  *)
(* of PNG files found.                                                     *)
(***************************************************************************)
C1_CountConservation ==
    pc \in {"loop", "done"} =>
        /\ converted_count + skipped_count + error_count = i - 1
        /\ converted_count = Cardinality(LinesOf("Converted"))
        /\ skipped_count = Cardinality(LinesOf("Skipping"))
        /\ error_count = Cardinality(LinesOf("Error converting"))
        /\ \A k \in DOMAIN png_files :
              Cardinality(LinesAbout(png_files[k]) \cap OutcomeLines) = IF k < i THEN 1 ELSE 0
        /\ pc = "done" =>
              /\ stdout[Len(stdout)] = SummaryLine(<<Len(png_files), converted_count,
                                                     skipped_count, error_count>>)
              /\ Len(png_files) = converted_count + skipped_count + error_count
              /\ Len(png_files) = Cardinality(glob_png(fs0))

C1_Witness ==
    /\ pc = "done"
    /\ converted_count > 0
    /\ skipped_count > 0
    /\ error_count > 0

C3_NoOverwrite ==
    /\ \A k \in DOMAIN checks :
          checks[k].existed =>
              /\ checks[k].path \in DOMAIN fs
              /\ fs[checks[k].path] = checks[k].was[1]
              /\ \A s \in DOMAIN saves : saves[s].path # checks[k].path
              /\ OpensOf(checks[k].file) = {}
    /\ \A s \in DOMAIN saves :
          \E k \in DOMAIN checks :
              /\ checks[k].path = saves[s].path
              /\ ~checks[k].existed

C3_Witness ==
    /\ pc = "done"
    /\ \E k \in DOMAIN checks : checks[k].existed /\ can_open(fs[checks[k].file])
    /\ \E s \in DOMAIN saves : saves[s].ok

OwnOutcome(f) ==
    IF OutputName(f) \in DOMAIN fs0 THEN "Skipping"
    ELSE IF fs0[f].fmt # "PNG" THEN "Error converting"
    ELSE IF \E s \in SavesOf(f) : saves[s].ok THEN "Converted"
    ELSE "Error converting"

C5_BatchContinues ==
    /\ pc \in {"main", "convert", "loop"} \cup Returned
    /\ pc = "loop" => ENABLED (SkipFile \/ DecodeFails \/ Converts \/ SaveFails \/ Summary)
    /\ \A k \in DOMAIN png_files :
          k < i =>
              /\ Cardinality(OpensOf(png_files[k])) <= 1
              /\ Cardinality(SavesOf(png_files[k])) <= 1
              /\ \E l \in OutcomeLines :
                    /\ LinesAbout(png_files[k]) = {l}
                    /\ stdout[l].t = OwnOutcome(png_files[k])
    /\ \A s \in DOMAIN saves :
          saves[s].ok =>
              /\ saves[s].path \in DOMAIN fs
              /\ fs[saves[s].path] = Encoded(saves[s].img, saves[s].kw)
    /\ pc = "loop" => (i <= Len(png_files) + 1 /\ Len(checks) = i - 1)
    /\ pc = "done" =>
          /\ i = Len(png_files) + 1
          /\ stdout[Len(stdout)].t = "CONVERSION SUMMARY"
    /\ LinesOf("Error converting") # {} => pc \in {"loop", "done"}

C5_Witness ==
    /\ pc = "done"
    /\ \E a, b, c \in DOMAIN stdout :
          /\ a < b
          /\ b < c
          /\ stdout[a].t = "Converted"
          /\ stdout[b].t = "Error converting"
          /\ stdout[c].t = "Converted"

(***************************************************************************)
(* C6  Directory precondition: when source_dir is missing or is no         *)
(* directory, convert_png_to_webp prints the error for that case and       *)
(* returns; nothing was listed, checked, opened or saved, the directory is *)
(* as it was, and no summary was printed.                                  *)
(***************************************************************************)
DirectoryError == pc \in {"no_dir", "not_dir"}

C6_DirectoryPrecondition ==
    (kind # "dir" /\ pc \notin {"main", "convert", "bad_quality"}) =>
        /\ DirectoryError
        /\ pc = "no_dir" <=> kind = "missing"
        /\ Len(stdout) = 2
        /\ stdout[2].t = (IF kind = "missing" THEN "Error: does not exist"
                          ELSE "Error: is not a directory")
        /\ LinesOf("CONVERSION SUMMARY") = {}
        /\ png_files = <<>>
        /\ checks = <<>>
        /\ opened = <<>>
        /\ saves = <<>>
        /\ fs = fs0

C6_Witness ==
    /\ kind = "file"
    /\ pc = "not_dir"
    /\ run = 2

(***************************************************************************)
(* C7  Empty directory, as amended: on an existing directory without PNG   *)
(* files the function prints "No PNG files found" and returns; it prints   *)
(* no summary, counts nothing and writes no file.                          *)
(***************************************************************************)
RanOnDirWithoutPng ==
    /\ kind = "dir"
    /\ glob_png(fs0) = {}
    /\ pc \in Returned \ {"bad_quality"}

C7_EmptyDirectory ==
    RanOnDirWithoutPng =>
        /\ pc = "no_png"
        /\ Len(stdout) = 2
        /\ stdout[2].t = "No PNG files found"
        /\ LinesOf("CONVERSION SUMMARY") = {}
        /\ png_files = <<>>
        /\ saves = <<>>
        /\ fs = fs0

C7_Witness ==
    /\ pc = "no_png"
    /\ DOMAIN fs # {}

(* C7 as stated: the run ends with a summary whose four counts are zero *)
C7_Original ==
    RanOnDirWithoutPng =>
        /\ \E k \in DOMAIN stdout : stdout[k] = SummaryLine(<<0, 0, 0, 0>>)
        /\ fs = fs0

(***************************************************************************)
(* C8  Mode decision, as amended: an RGBA image reaches the encoder        *)
(* unchanged (alpha kept) when its minimum alpha is below 255 and          *)
(* converted to RGB (alpha dropped) when every alpha sample is 255; an     *)
(* image of any other mode, one with an alpha channel such as LA included, *)
(* reaches the encoder unchanged; the file written has the mode of the     *)
(* image saved.                                                            *)
(***************************************************************************)
C8_ModeDecision ==
    \A s \in DOMAIN saves :
        LET src == saves[s].src
            img == saves[s].img
        IN  /\ (src.mode = "RGBA" /\ MinAlpha(src) < Opaque) => img = src
            /\ (src.mode = "RGBA" /\ MinAlpha(src) = Opaque) =>
                   /\ img.mode = "RGB"
                   /\ ~HasAlphaChannel(img.mode)
                   /\ img.alpha = NoAlpha
            /\ src.mode # "RGBA" => img = src
            /\ saves[s].ok => fs[saves[s].path].mode = img.mode

C8_Witness ==
    /\ pc = "done"
    /\ \E s \in DOMAIN saves :
          saves[s].ok /\ saves[s].src.mode = "RGBA" /\ MinAlpha(saves[s].src) = Opaque
    /\ \E s \in DOMAIN saves :
          saves[s].ok /\ saves[s].src.mode = "RGBA" /\ MinAlpha(saves[s].src) < Opaque
    /\ \E s \in DOMAIN saves :
          saves[s].ok /\ saves[s].src.mode = "LA" /\ MinAlpha(saves[s].src) = Opaque

(* C8 as stated: whatever the colour model, an alpha channel that is fully
   opaque is dropped and one that is not is kept *)
C8_Original ==
    \A s \in DOMAIN saves :
        LET src == saves[s].src
            img == saves[s].img
        IN  saves[s].ok =>
               /\ (HasAlphaChannel(src.mode) /\ MinAlpha(src) < Opaque) =>
                      HasAlphaChannel(img.mode)
               /\ (HasAlphaChannel(src.mode) /\ MinAlpha(src) = Opaque) =>
                      ~HasAlphaChannel(img.mode)
               /\ ~HasAlphaChannel(src.mode) => img = src

C10_LosslessDocumented ==
    args.lossless =>
        \A s \in DOMAIN saves :
            /\ "lossless" \in DOMAIN saves[s].kw
            /\ saves[s].kw.lossless
            /\ "quality" \notin DOMAIN saves[s].kw

====
